---- MODULE Spec2Model ----
(***************************************************************************)
(* Desktop attendance tracker: the attendance state machine                *)
(* (state_manager.py), the orchestrator's handlers (main.py), the idle     *)
(* poller (idle_tracker.py), the activity listener (activity_listener.py)  *)
(* the screenshot service (screenshot_service.py) and the usage tracker     *)
(* (usage_tracker.py).                                                     *)
(*                                                                         *)
(* Every handler runs to completion on the single UI thread, so each is    *)
(* one action.  A handler is written as a function on a record w of the    *)
(* whole program state ("world"), so that the calls it makes one after the *)
(* other (backend call, state update, notification, poller start/stop)     *)
(* compose in the order of the code.                                       *)
(***************************************************************************)
EXTENDS Integers, Sequences, FiniteSets, TLC

VARIABLES
    sm,         \* StateManager: _state, _session_token, _staff_settings, ...
    api_token,  \* APIClient.session_token
    view,       \* stacked_widget.currentWidget(): "login" or "dashboard"
    idle,       \* now - ActivityListener._last_activity_time, in seconds
    sys_idle,   \* _seconds_since_last_system_input(): seconds, or NoSys
    pending,    \* activity_detected emissions not yet delivered to the UI thread
    idleT,      \* IdleTracker: _is_active, _last_reported_threshold_index
    ss_active,  \* ScreenshotService._is_active
    usage,      \* UsageTracker: _is_active, _accumulated
    frozen,     \* DashboardWindow._break_start_timestamp is set: the work timer is frozen
    resp,       \* an error response of the backend and the text extracted from it
    listener,   \* ActivityListener: _lock, _last_activity_time, and its callers' steps
    srv,        \* the backend: attendance of the user, and the policy it serves
    ev,         \* what the last handler did: calls, notifications, warnings
    episode,    \* history: report calls per threshold index in the idle episode
    script,     \* history: how far the ticks follow the idle sequence of IdleScript
    hist,       \* history: statuses taken and notifications sent (SpecSM)
    ledger      \* history: seconds sampled and seconds delivered, per key (SpecUsage)

vars == <<sm, api_token, view, idle, sys_idle, pending, idleT, ss_active, usage, listener,
          frozen, resp, srv,
          ev, episode, script, hist, ledger>>

(***************************************************************************)
(* Values                                                                  *)
(***************************************************************************)
None == "None"            \* Python None, for string-valued fields
NoInt == -1               \* Python None, for int-valued fields
NoSys == -1               \* _seconds_since_last_system_input() returned None

LOGGED_OUT == "logged_out"
CHECKED_IN == "checked_in"
ON_BREAK == "on_break"
FORCE_BREAK == "force_break"
AppState == {LOGGED_OUT, CHECKED_IN, ON_BREAK, FORCE_BREAK}

Min(S) == CHOOSE x \in S : \A y \in S : x <= y

\* Bounds of the model
MaxPending == 1           \* activity events queued for the UI thread
MaxOps == 5               \* StateManager operations in SpecSM
MaxClock == 5             \* steps of 25 s the two idle clocks run in SpecIdleSrc
MaxSamples == 3           \* usage samples of one key held in the accumulator
MaxNow == 3               \* readings of datetime.now() the threads of SpecLock tell apart

\* Elapsed seconds since the last activity that the model distinguishes: the
\* thresholds and the values between them (Spec), and the values of IdleScript
\* (SpecIdle).
IdleValues == {0, 60, 300, 900}
ScriptValues == {0, 59, 60, 61, 300, 899, 900}
\* company_rules idle1_time/idle2_time/idle3_time, in minutes
ThresholdChoices == {<< >>, <<1, 5, 15>>}
\* staff_settings.allow_screenshot as the backend may send it
AllowChoices == {"True", "no"}
\* staff_settings.force_break_time (minutes) and today_attendance.late_by
\* (seconds) of the user: a late user with the default force-break time, and a
\* punctual one with a force-break time of one minute.
UserChoices == {[force_break_time |-> 5, late |-> 300], [force_break_time |-> 1, late |-> 0]}

\* A staff_settings dict: the keys the model follows, "absent" for a missing key.
EmptyDict == [isNone |-> FALSE, allow_screenshot |-> "absent", force_break_time |-> NoInt]
NoneDict == [isNone |-> TRUE, allow_screenshot |-> "absent", force_break_time |-> NoInt]
NoRules == [isNone |-> TRUE, idle_minutes |-> << >>, usage_policy_enabled |-> FALSE]

(***************************************************************************)
(* StateManager (state_manager.py)                                         *)
(***************************************************************************)
StateManagerInit ==
    [state |-> LOGGED_OUT, session_token |-> None, staff_settings |-> NoneDict,
     company_rules |-> NoRules, check_in_time |-> None,
     break_start_time |-> None, late_by_minutes |-> NoInt]

\* bool(dict): None and {} are falsy
Truthy(d) == ~d.isNone /\ (d.allow_screenshot # "absent" \/ d.force_break_time # NoInt)

allow_screenshot(s) ==
    IF Truthy(s.staff_settings)
    THEN LET allow == s.staff_settings.allow_screenshot IN
         IF allow = "absent" THEN FALSE          \* .get(..., False)
         ELSE IF allow \in {"True", "False"} THEN allow = "True"
         ELSE allow = "yes"
    ELSE FALSE

force_break_time(s) ==
    IF Truthy(s.staff_settings)
    THEN (IF s.staff_settings.force_break_time = NoInt THEN 5
          ELSE s.staff_settings.force_break_time) * 60
    ELSE 300

\* The thresholds in seconds, from company_rules idle1_time..idle3_time (minutes).
idle_report_thresholds_seconds(s) ==
    IF s.company_rules.isNone THEN << >>
    ELSE [i \in 1..Len(s.company_rules.idle_minutes) |-> s.company_rules.idle_minutes[i] * 60]

\* The usage-policy flag of the company rules.
usage_policy_enabled(s) ==
    ~s.company_rules.isNone /\ s.company_rules.usage_policy_enabled

(***************************************************************************)
(* IdleTracker.start/stop, ScreenshotService.start/stop                    *)
(***************************************************************************)
IdleTrackerInit == [is_active |-> FALSE, last_idx |-> -1]

\* Variant: start restarts a poller that is already active.
IdleStart_restarts(w) ==
    [w EXCEPT !.idleT = [is_active |-> TRUE, last_idx |-> -1],
              !.idle = 0,
              !.started = TRUE]

IdleStart(w) ==
    IF w.idleT.is_active THEN w
    ELSE [w EXCEPT !.idleT = [is_active |-> TRUE, last_idx |-> -1],
                   !.idle = 0,                  \* activity_listener.reset()
                   !.started = TRUE]

IdleStop(w) ==
    IF ~w.idleT.is_active THEN w
    ELSE [w EXCEPT !.idleT.is_active = FALSE]

\* Variant: start does not look at allow_screenshot.
ScreenshotStart_any_policy(w) ==
    IF w.ss_active THEN w
    ELSE IF w.sm.state # CHECKED_IN THEN w
    ELSE [w EXCEPT !.ss_active = TRUE, !.shot = "started"]

ScreenshotStart(w) ==
    IF w.ss_active THEN w
    ELSE IF ~allow_screenshot(w.sm) THEN w
    ELSE IF w.sm.state # CHECKED_IN THEN w
    ELSE [w EXCEPT !.ss_active = TRUE, !.shot = "started"]

ScreenshotStop(w) ==
    IF ~w.ss_active THEN w
    ELSE [w EXCEPT !.ss_active = FALSE, !.shot = "stopped"]

(***************************************************************************)
(* The state setter and its observer, AttendanceApp._on_state_changed      *)
(***************************************************************************)
\* What the observer reads from the state manager when it is notified.
Snapshot(w, new_state) ==
    [state |-> new_state,
     check_in_time |-> w.sm.check_in_time,
     break_start_time |-> w.sm.break_start_time,
     late_by_minutes |-> w.sm.late_by_minutes,
     session_token |-> w.sm.session_token]

\* Variant: update_state resets the work timer on LOGGED_OUT only.
update_state_keeps_freeze(w, state) ==
    IF state = LOGGED_OUT THEN [w EXCEPT !.frozen = FALSE] ELSE w

\* DashboardWindow.update_state, as far as the work timer goes: reset_timer on
\* LOGGED_OUT, clear_break_freeze on CHECKED_IN, nothing on a break.
update_state(w, state) ==
    IF state \in {LOGGED_OUT, CHECKED_IN} THEN [w EXCEPT !.frozen = FALSE] ELSE w

_refresh_dashboard_state(w) == update_state(w, w.sm.state)

\* Variant: the services are left running on a force break.
_on_state_changed_force_runs(w, new_state) ==
    LET w1 == update_state([w EXCEPT !.notes = Append(@, Snapshot(w, new_state))],
                           new_state)
    IN
    IF new_state = CHECKED_IN
    THEN LET w2 == IdleStart(w1) IN
         IF allow_screenshot(w2.sm) THEN ScreenshotStart(w2) ELSE ScreenshotStop(w2)
    ELSE IF new_state = FORCE_BREAK THEN w1
    ELSE ScreenshotStop(IdleStop(w1))

_on_state_changed(w, new_state) ==
    LET w1 == update_state([w EXCEPT !.notes = Append(@, Snapshot(w, new_state))],
                           new_state)
    IN
    IF new_state = CHECKED_IN
    THEN LET w2 == IdleStart(w1) IN
         IF allow_screenshot(w2.sm) THEN ScreenshotStart(w2) ELSE ScreenshotStop(w2)
    ELSE ScreenshotStop(IdleStop(w1))

\* Variant: the setter notifies also when the status does not change.
SetState_always(w, new_state) ==
    _on_state_changed([w EXCEPT !.sm.state = new_state], new_state)

SetState(w, new_state) ==
    IF w.sm.state # new_state
    THEN _on_state_changed([w EXCEPT !.sm.state = new_state], new_state)
    ELSE w

set_login_data(w, session_token, staff_settings, company_rules) ==
    SetState([w EXCEPT !.sm.session_token = session_token,
                       !.sm.staff_settings =
                           IF Truthy(staff_settings) THEN staff_settings ELSE EmptyDict,
                       !.sm.company_rules = company_rules],
             LOGGED_OUT)

merge_staff_settings(w, updates) ==
    IF ~Truthy(updates) THEN w
    ELSE LET base == IF w.sm.staff_settings.isNone THEN EmptyDict ELSE w.sm.staff_settings IN
         [w EXCEPT !.sm.staff_settings =
             [isNone |-> FALSE,
              allow_screenshot |-> IF updates.allow_screenshot # "absent"
                                   THEN updates.allow_screenshot ELSE base.allow_screenshot,
              force_break_time |-> IF updates.force_break_time # NoInt
                                   THEN updates.force_break_time ELSE base.force_break_time]]

\* Variant: the status is set, and the observer notified, before the fields.
set_check_in_state_first(w, check_in_time, late_by_minutes) ==
    LET w1 == SetState(w, CHECKED_IN) IN
    [w1 EXCEPT !.sm.check_in_time = check_in_time,
               !.sm.late_by_minutes = late_by_minutes]

set_check_in(w, check_in_time, late_by_minutes) ==
    SetState([w EXCEPT !.sm.check_in_time = check_in_time,
                       !.sm.late_by_minutes = late_by_minutes],
             CHECKED_IN)

\* Variant: is_force is read the wrong way round.
set_break_start_swapped(w, break_start_time, is_force) ==
    SetState([w EXCEPT !.sm.break_start_time = break_start_time],
             IF is_force THEN ON_BREAK ELSE FORCE_BREAK)

set_break_start(w, break_start_time, is_force) ==
    SetState([w EXCEPT !.sm.break_start_time = break_start_time],
             IF is_force THEN FORCE_BREAK ELSE ON_BREAK)

set_break_end(w) ==
    SetState([w EXCEPT !.sm.break_start_time = None], CHECKED_IN)

\* Variant: check-out forgets to clear late_by_minutes.
set_check_out_keeps_late(w) ==
    SetState([w EXCEPT !.sm.check_in_time = None,
                       !.sm.break_start_time = None],
             LOGGED_OUT)

set_check_out(w) ==
    SetState([w EXCEPT !.sm.check_in_time = None,
                       !.sm.break_start_time = None,
                       !.sm.late_by_minutes = NoInt],
             LOGGED_OUT)

\* Variant: logout clears the fields and leaves the status as it is.
logout_keeps_status(w) ==
    [w EXCEPT !.sm.session_token = None,
              !.sm.staff_settings = NoneDict,
              !.sm.company_rules = NoRules,
              !.sm.check_in_time = None,
              !.sm.break_start_time = None,
              !.sm.late_by_minutes = NoInt]

\* Variant: logout keeps the policy it was given at login.
logout_keeps_policy(w) ==
    SetState([w EXCEPT !.sm.session_token = None,
                       !.sm.check_in_time = None,
                       !.sm.break_start_time = None,
                       !.sm.late_by_minutes = NoInt],
             LOGGED_OUT)

logout(w) ==
    SetState([w EXCEPT !.sm.session_token = None,
                       !.sm.staff_settings = NoneDict,
                       !.sm.company_rules = NoRules,
                       !.sm.check_in_time = None,
                       !.sm.break_start_time = None,
                       !.sm.late_by_minutes = NoInt],
             LOGGED_OUT)

(***************************************************************************)
(* The backend, seen through APIClient (api_client.py)                     *)
(***************************************************************************)
Token == "tok"
OtherToken == "tok2"        \* the token of another session
CheckInTime == "09:00"      \* strftime("%H:%M") of the check-in
BreakTime == "12:00"        \* strftime("%H:%M") of the break start

\* The attendance the backend holds for the user today:
\* "out" never checked in, "in" checked in, "break" on break, "done" checked out.
SrvAtt == {"out", "in", "break", "done"}

SrvAccepts(name, att) ==
    CASE name = "check_in" -> att \in {"out", "done"}
      [] name = "check_out" -> att = "in"
      [] name = "start_break" -> att = "in"
      [] name = "force_break_start" -> att = "in"
      [] name = "end_break" -> att = "break"
      [] OTHER -> TRUE

SrvAfter(name, att) ==
    CASE name = "check_in" -> "in"
      [] name = "check_out" -> "done"
      [] name = "start_break" -> "break"
      [] name = "force_break_start" -> "break"
      [] name = "end_break" -> "in"
      [] OTHER -> att

\* GET /staff/dashboard/stats
StatsData(s) ==
    [staff |-> s.staff,
     is_checked_in |-> s.att \in {"in", "break"},
     is_checked_out |-> s.att = "done",
     on_break |-> s.att = "break",
     late_by |-> s.late]

\* A request succeeds when the network delivers it (net), it carries the bearer
\* token and the backend accepts it; otherwise _get/_post raise.
CallOk(w, name, net) == net /\ w.api_token # None /\ SrvAccepts(name, w.srv.att)

Call(w, name, arg, net) ==
    [w EXCEPT !.calls = Append(@, [name |-> name, arg |-> arg, ok |-> CallOk(w, name, net)]),
              !.srv.att = IF CallOk(w, name, net) THEN SrvAfter(name, @) ELSE @]

\* Variant: APIClient.logout keeps the token.
api_logout_keeps_token(w, net) == Call(w, "logout", 0, net)

\* APIClient.logout: the token is cleared whether the request succeeds or not.
api_logout(w, net) == [Call(w, "logout", 0, net) EXCEPT !.api_token = None]

\* QMessageBox.warning
Warn(w, title) == [w EXCEPT !.warn = Append(@, title)]

(***************************************************************************)
(* AttendanceApp (main.py)                                                 *)
(***************************************************************************)
LateMinutes(late_by_sec) ==
    IF late_by_sec # NoInt /\ late_by_sec > 0 THEN (late_by_sec + 30) \div 60 ELSE NoInt

\* The dashboard calls that follow each branch: reset_timer, or
\* set_check_in_time with or without a break_start_timestamp.
_sync_state_from_dashboard_stats(w, data) ==
    LET w1 == merge_staff_settings(w, data.staff) IN
    _refresh_dashboard_state(
        IF data.is_checked_out THEN [set_check_out(w1) EXCEPT !.frozen = FALSE]
        ELSE IF ~data.is_checked_in THEN [w1 EXCEPT !.frozen = FALSE]
        ELSE IF data.on_break
        THEN [set_break_start(w1, BreakTime, FALSE) EXCEPT !.frozen = TRUE]
        ELSE [set_check_in(w1, CheckInTime, LateMinutes(data.late_by))
                  EXCEPT !.frozen = FALSE])

\* get_dashboard_stats raises when the request fails; then nothing is synced.
_fetch_and_sync_dashboard(w, net) ==
    LET w1 == Call(w, "stats", 0, net) IN
    IF CallOk(w, "stats", net)
    THEN _sync_state_from_dashboard_stats(w1, StatsData(w1.srv))
    ELSE w1

\* res: "fail" (the request raised), else result.get("session_token") of the
\* 2xx response: None or a token.
_handle_login(w, res, net) ==
    LET w0 == [w EXCEPT !.calls = Append(@, [name |-> "login", arg |-> 0, ok |-> res # "fail"])] IN
    IF res = "fail" THEN Warn(w0, "Login Failed")
    ELSE LET w1 == [w0 EXCEPT !.api_token = res] IN
         IF res = None THEN Warn(w1, "Login Failed")
         ELSE LET w2 == set_login_data(w1, res, w1.srv.staff, w1.srv.rules)
                  w3 == [w2 EXCEPT !.view = "dashboard"]
              IN _fetch_and_sync_dashboard(w3, net)

\* Variant: the handler clears the state and leaves the API client alone.
_handle_logout_local(w, net) ==
    [logout(ScreenshotStop(IdleStop(w))) EXCEPT !.view = "login"]

_handle_logout(w, net) ==
    LET w1 == ScreenshotStop(IdleStop(w))
        w2 == api_logout(w1, net)
        w3 == logout(w2)
    IN [w3 EXCEPT !.view = "login"]

\* Variant: the handler leaves the credential check to APIClient.check_in.
_handle_check_in_unguarded(w, n1, n2) ==
    LET w1 == Call(w, "check_in", 0, n1) IN
    IF CallOk(w, "check_in", n1)
    THEN _fetch_and_sync_dashboard(w1, n2)
    ELSE Warn(w1, "Check-in Failed")

_handle_check_in(w, n1, n2) ==
    IF w.api_token = None THEN Warn(w, "Check-in Failed")
    ELSE LET w1 == Call(w, "check_in", 0, n1) IN
         _refresh_dashboard_state(
             IF CallOk(w, "check_in", n1)
             THEN _fetch_and_sync_dashboard(w1, n2)
             ELSE Warn(w1, "Check-in Failed"))

_handle_check_out(w, n1, n2) ==
    LET w1 == Call(w, "check_out", 0, n1) IN
    _refresh_dashboard_state(
        IF CallOk(w, "check_out", n1)
        THEN IF CallOk(w1, "stats", n2)
             THEN _fetch_and_sync_dashboard(w1, n2)
             ELSE [set_check_out(_fetch_and_sync_dashboard(w1, n2)) EXCEPT !.frozen = FALSE]
        ELSE Warn(w1, "Check-out Failed"))

\* Variant: a failed start_break call optimistically starts the break locally.
_handle_start_break_optimistic(w, n1, n2) ==
    LET w1 == Call(w, "start_break", 0, n1) IN
    IF CallOk(w, "start_break", n1)
    THEN IF CallOk(w1, "stats", n2)
         THEN _fetch_and_sync_dashboard(w1, n2)
         ELSE Warn(_fetch_and_sync_dashboard(w1, n2), "Break Failed")
    ELSE Warn(set_break_start(w1, BreakTime, FALSE), "Break Failed")

_handle_start_break(w, n1, n2) ==
    LET w1 == Call(w, "start_break", 0, n1) IN
    _refresh_dashboard_state(
        IF CallOk(w, "start_break", n1)
        THEN IF CallOk(w1, "stats", n2)
             THEN _fetch_and_sync_dashboard(w1, n2)
             ELSE Warn(_fetch_and_sync_dashboard(w1, n2), "Break Failed")
        ELSE Warn(w1, "Break Failed"))

_handle_end_break(w, n1, n2) ==
    LET w1 == Call(w, "end_break", 0, n1) IN
    _refresh_dashboard_state(
        IF CallOk(w, "end_break", n1)
        THEN IF CallOk(w1, "stats", n2)
             THEN _fetch_and_sync_dashboard(w1, n2)
             ELSE Warn(_fetch_and_sync_dashboard(w1, n2), "Break Failed")
        ELSE Warn(w1, "Break Failed"))

\* Variant: the force break needs more idle time than force_break_time.
_check_force_break_late(w, n1, n2) ==
    LET w1 == IF w.api_token # None /\ w.view = "dashboard"
              THEN _fetch_and_sync_dashboard(w, n1)
              ELSE w
    IN
    IF w1.sm.state # CHECKED_IN THEN w1
    ELSE IF w1.idle > force_break_time(w1.sm)
         THEN LET w2 == Call(w1, "force_break_start", 0, n2) IN
              IF CallOk(w1, "force_break_start", n2)
              THEN [set_break_start(w2, BreakTime, TRUE) EXCEPT !.frozen = TRUE]
              ELSE w2
         ELSE w1

_check_force_break(w, n1, n2) ==
    LET w1 == IF w.api_token # None /\ w.view = "dashboard"
              THEN _fetch_and_sync_dashboard(w, n1)
              ELSE w
    IN
    IF w1.sm.state # CHECKED_IN THEN w1
    ELSE LET idle_seconds == w1.idle IN
         IF idle_seconds >= force_break_time(w1.sm)
         THEN LET w2 == Call(w1, "force_break_start", 0, n2) IN
              IF CallOk(w1, "force_break_start", n2)
              THEN [set_break_start(w2, BreakTime, TRUE) EXCEPT !.frozen = TRUE]
              ELSE w2
         ELSE w1

\* Variant: activity ends any break, not only a force break.
_on_activity_detected_any_break(w, net) ==
    IF w.sm.state \in {ON_BREAK, FORCE_BREAK}
    THEN LET w1 == Call(w, "end_break", 0, net) IN
         IF CallOk(w, "end_break", net) THEN set_break_end(w1) ELSE w1
    ELSE w

_on_activity_detected(w, net) ==
    IF w.sm.state = FORCE_BREAK
    THEN LET w1 == Call(w, "end_break", 0, net) IN
         IF CallOk(w, "end_break", net) THEN set_break_end(w1) ELSE w1
    ELSE w

(***************************************************************************)
(* ActivityListener (activity_listener.py), IdleTracker._check_idle        *)
(***************************************************************************)
\* app_seconds: now - _last_activity_time; system_seconds: the OS's idle time
get_seconds_since_last_activity(app_seconds, system_seconds) ==
    IF system_seconds # NoSys
    THEN (IF app_seconds <= system_seconds THEN app_seconds ELSE system_seconds)
    ELSE app_seconds

\* Variants of _check_idle with one slip each.
\* ... the last-reported index is not reset when the idle duration drops below
\* the first threshold:
_check_idle_no_reset(w, net) ==
    IF w.sm.state # CHECKED_IN THEN w
    ELSE LET idle_seconds == w.idle
             thresholds == idle_report_thresholds_seconds(w.sm)
             w1 == [w EXCEPT !.published = idle_seconds]
         IN
         IF Len(thresholds) = 0 THEN w1
         ELSE IF idle_seconds < thresholds[1] THEN w1
         ELSE LET hits == {i \in 0..(Len(thresholds) - 1) :
                              idle_seconds >= thresholds[i + 1] /\ w1.idleT.last_idx < i}
              IN
              IF hits = {} THEN w1
              ELSE LET i == Min(hits)
                       w2 == Call(w1, "report_idle", idle_seconds, net)
                       w3 == [w2 EXCEPT !.report_idx = i]
                   IN IF CallOk(w1, "report_idle", net)
                      THEN [w3 EXCEPT !.idleT.last_idx = i]
                      ELSE w3

\* ... a threshold already reported is reported again (<= for <):
_check_idle_again(w, net) ==
    IF w.sm.state # CHECKED_IN THEN w
    ELSE LET idle_seconds == w.idle
             thresholds == idle_report_thresholds_seconds(w.sm)
             w1 == [w EXCEPT !.published = idle_seconds]
         IN
         IF Len(thresholds) = 0 THEN w1
         ELSE IF idle_seconds < thresholds[1]
         THEN [w1 EXCEPT !.idleT.last_idx = -1]
         ELSE LET hits == {i \in 0..(Len(thresholds) - 1) :
                              idle_seconds >= thresholds[i + 1] /\ w1.idleT.last_idx <= i}
              IN
              IF hits = {} THEN w1
              ELSE LET i == Min(hits)
                       w2 == Call(w1, "report_idle", idle_seconds, net)
                       w3 == [w2 EXCEPT !.report_idx = i]
                   IN IF CallOk(w1, "report_idle", net)
                      THEN [w3 EXCEPT !.idleT.last_idx = i]
                      ELSE w3

\* ... an empty threshold list falls back to the thresholds 60, 300, 900:
_check_idle_default(w, net) ==
    IF w.sm.state # CHECKED_IN THEN w
    ELSE LET idle_seconds == w.idle
             given == idle_report_thresholds_seconds(w.sm)
             thresholds == IF Len(given) = 0 THEN <<60, 300, 900>> ELSE given
             w1 == [w EXCEPT !.published = idle_seconds]
         IN
         IF idle_seconds < thresholds[1]
         THEN [w1 EXCEPT !.idleT.last_idx = -1]
         ELSE LET hits == {i \in 0..(Len(thresholds) - 1) :
                              idle_seconds >= thresholds[i + 1] /\ w1.idleT.last_idx < i}
              IN
              IF hits = {} THEN w1
              ELSE LET i == Min(hits)
                       w2 == Call(w1, "report_idle", idle_seconds, net)
                       w3 == [w2 EXCEPT !.report_idx = i]
                   IN IF CallOk(w1, "report_idle", net)
                      THEN [w3 EXCEPT !.idleT.last_idx = i]
                      ELSE w3

\* ... the index is recorded before the report call, so also when it fails:
_check_idle_early(w, net) ==
    IF w.sm.state # CHECKED_IN THEN w
    ELSE LET idle_seconds == w.idle
             thresholds == idle_report_thresholds_seconds(w.sm)
             w1 == [w EXCEPT !.published = idle_seconds]
         IN
         IF Len(thresholds) = 0 THEN w1
         ELSE IF idle_seconds < thresholds[1]
         THEN [w1 EXCEPT !.idleT.last_idx = -1]
         ELSE LET hits == {i \in 0..(Len(thresholds) - 1) :
                              idle_seconds >= thresholds[i + 1] /\ w1.idleT.last_idx < i}
              IN
              IF hits = {} THEN w1
              ELSE LET i == Min(hits)
                       w2 == Call(w1, "report_idle", idle_seconds, net)
                   IN [w2 EXCEPT !.report_idx = i, !.idleT.last_idx = i]

\* Variant: the idle poller itself puts an idle user on a break.
_check_idle_breaks(w, net) ==
    IF w.sm.state # CHECKED_IN THEN w
    ELSE LET thresholds == idle_report_thresholds_seconds(w.sm) IN
         IF Len(thresholds) > 0 /\ w.idle >= thresholds[1]
         THEN set_break_start(Call(w, "report_idle", w.idle, net), BreakTime, TRUE)
         ELSE [w EXCEPT !.published = w.idle]

\* Variant: the tick reports in every status.
_check_idle_any_status(w, net) ==
    LET idle_seconds == w.idle
        thresholds == idle_report_thresholds_seconds(w.sm)
        hits == {i \in 0..(Len(thresholds) - 1) :
                    idle_seconds >= thresholds[i + 1] /\ w.idleT.last_idx < i}
    IN IF hits = {} THEN [w EXCEPT !.published = idle_seconds]
       ELSE [Call(w, "report_idle", idle_seconds, net)
                EXCEPT !.published = idle_seconds, !.report_idx = Min(hits)]

_check_idle(w, net) ==
    IF w.sm.state # CHECKED_IN THEN w
    ELSE LET idle_seconds == w.idle
             thresholds == idle_report_thresholds_seconds(w.sm)
             w1 == [w EXCEPT !.published = idle_seconds]     \* idle_updated.emit
         IN
         IF Len(thresholds) = 0 THEN w1
         ELSE IF idle_seconds < thresholds[1]
         THEN [w1 EXCEPT !.idleT.last_idx = -1]
         ELSE LET hits == {i \in 0..(Len(thresholds) - 1) :
                              idle_seconds >= thresholds[i + 1] /\ w1.idleT.last_idx < i}
              IN
              IF hits = {} THEN w1
              ELSE LET i == Min(hits)
                       w2 == Call(w1, "report_idle", idle_seconds, net)
                       w3 == [w2 EXCEPT !.report_idx = i]
                   IN IF CallOk(w1, "report_idle", net)
                      THEN [w3 EXCEPT !.idleT.last_idx = i]
                      ELSE w3

(***************************************************************************)
(* ScreenshotService._capture_and_upload (screenshot_service.py)           *)
(***************************************************************************)
\* Variants of _capture_and_upload with one slip each.
\* ... the tick does not look at allow_screenshot again:
_capture_and_upload_no_policy(w, cap, net) ==
    IF w.sm.state # CHECKED_IN THEN ScreenshotStop(w)
    ELSE IF ~cap THEN w
    ELSE Call(w, "upload_screenshot", 0, net)

\* ... a failed upload stops the timer:
_capture_and_upload_gives_up(w, cap, net) ==
    IF w.sm.state # CHECKED_IN THEN ScreenshotStop(w)
    ELSE IF ~allow_screenshot(w.sm) THEN ScreenshotStop(w)
    ELSE IF ~cap THEN w
    ELSE IF CallOk(w, "upload_screenshot", net)
    THEN Call(w, "upload_screenshot", 0, net)
    ELSE ScreenshotStop(Call(w, "upload_screenshot", 0, net))

\* cap: the screen grab and the JPEG encoding succeed; otherwise the exception
\* is caught before the upload.
_capture_and_upload(w, cap, net) ==
    IF w.sm.state # CHECKED_IN THEN ScreenshotStop(w)
    ELSE IF ~allow_screenshot(w.sm) THEN ScreenshotStop(w)
    ELSE IF ~cap THEN w
    ELSE Call(w, "upload_screenshot", 0, net)

(***************************************************************************)
(* UsageTracker (usage_tracker.py)                                         *)
(***************************************************************************)
SAMPLE_INTERVAL_MS == 10000

\* (app_name, site_url or "") as get_active_app_and_url resolves them; NoApp
\* when no application name is resolved.
Keys == {<<"Chrome", "site.com">>, <<"Code", "">>}
NoApp == <<"", "">>

\* _accumulated as a function on Keys: 0 seconds for a key the dict does not
\* hold.  samples counts the samples whose seconds the accumulator holds.
NoUsage == [k \in Keys |-> 0]
UsageTrackerInit == [is_active |-> FALSE, acc |-> NoUsage, samples |-> NoUsage]

\* An entry of the batch; site_url is set only when the site is not empty.
Entry(k, duration_seconds) ==
    IF k[2] # ""
    THEN [app_name |-> k[1], duration_seconds |-> duration_seconds, site_url |-> k[2]]
    ELSE [app_name |-> k[1], duration_seconds |-> duration_seconds]

\* (ent["app_name"], ent.get("site_url") or "")
KeyOf(ent) ==
    <<ent.app_name, IF "site_url" \in DOMAIN ent THEN ent.site_url ELSE "">>

UsageStart(w) ==
    IF w.usage.is_active THEN w
    ELSE IF ~usage_policy_enabled(w.sm) THEN w
    ELSE IF w.sm.state # CHECKED_IN THEN w
    ELSE [w EXCEPT !.usage = [is_active |-> TRUE, acc |-> NoUsage, samples |-> NoUsage]]

\* Variant: the accumulator is not cleared when it is drained.
_report_keeps(w, net) ==
    IF w.usage.acc = NoUsage THEN w
    ELSE LET entries == {Entry(k, w.usage.acc[k]) : k \in {k \in Keys : w.usage.acc[k] > 0}}
             ok == CallOk(w, "report_usage", net)
             w2 == [Call(w, "report_usage", 0, net) EXCEPT
                        !.sent = Append(@, [batch |-> entries, ok |-> ok])]
         IN IF ok THEN [w2 EXCEPT !.usage.samples = NoUsage]
            ELSE [w2 EXCEPT !.usage.acc =
                     [k \in Keys |->
                         IF \E ent \in entries : KeyOf(ent) = k
                         THEN w2.usage.acc[k] +
                              (CHOOSE ent \in entries : KeyOf(ent) = k).duration_seconds
                         ELSE w2.usage.acc[k]]]

\* Variant: only entries that carry a site_url are put back after a failure.
_report_needs_site(w, net) ==
    IF w.usage.acc = NoUsage THEN w
    ELSE LET entries == {Entry(k, w.usage.acc[k]) : k \in {k \in Keys : w.usage.acc[k] > 0}}
             w1 == [w EXCEPT !.usage.acc = NoUsage]
             ok == CallOk(w1, "report_usage", net)
             w2 == [Call(w1, "report_usage", 0, net) EXCEPT
                        !.sent = Append(@, [batch |-> entries, ok |-> ok])]
         IN IF ok THEN [w2 EXCEPT !.usage.samples = NoUsage]
            ELSE [w2 EXCEPT !.usage.acc =
                     [k \in Keys |->
                         IF \E ent \in entries : "site_url" \in DOMAIN ent /\ KeyOf(ent) = k
                         THEN w2.usage.acc[k] +
                              (CHOOSE ent \in entries : KeyOf(ent) = k).duration_seconds
                         ELSE w2.usage.acc[k]]]

\* Variant: a batch whose send failed is dropped.
_report_drops_failed(w, net) ==
    IF w.usage.acc = NoUsage THEN w
    ELSE LET entries == {Entry(k, w.usage.acc[k]) : k \in {k \in Keys : w.usage.acc[k] > 0}}
             w1 == [w EXCEPT !.usage.acc = NoUsage, !.usage.samples = NoUsage]
         IN [Call(w1, "report_usage", 0, net) EXCEPT
                !.sent = Append(@, [batch |-> entries,
                                    ok |-> CallOk(w1, "report_usage", net)])]

_report(w, net) ==
    IF w.usage.acc = NoUsage THEN w
    ELSE LET entries == {Entry(k, w.usage.acc[k]) : k \in {k \in Keys : w.usage.acc[k] > 0}}
             w1 == [w EXCEPT !.usage.acc = NoUsage]
         IN
         IF entries = {} THEN [w1 EXCEPT !.usage.samples = NoUsage]
         ELSE LET ok == CallOk(w1, "report_usage", net)
                  w2 == [Call(w1, "report_usage", 0, net) EXCEPT
                             !.sent = Append(@, [batch |-> entries, ok |-> ok])]
              IN IF ok THEN [w2 EXCEPT !.usage.samples = NoUsage]
                 ELSE [w2 EXCEPT !.usage.acc =
                          [k \in Keys |->
                              IF \E ent \in entries : KeyOf(ent) = k
                              THEN w2.usage.acc[k] +
                                   (CHOOSE ent \in entries : KeyOf(ent) = k).duration_seconds
                              ELSE w2.usage.acc[k]]]

UsageStop(w, net) ==
    IF ~w.usage.is_active THEN w
    ELSE LET w1 == _report([w EXCEPT !.usage.is_active = FALSE], net) IN
         [w1 EXCEPT !.usage.acc = NoUsage, !.usage.samples = NoUsage]

\* app: what get_active_app_and_url returns at this tick
_sample(w, app, net) ==
    IF w.sm.state # CHECKED_IN THEN UsageStop(w, net)
    ELSE IF ~usage_policy_enabled(w.sm) THEN UsageStop(w, net)
    ELSE IF app = NoApp THEN w
    ELSE [w EXCEPT !.usage.acc[app] = @ + (SAMPLE_INTERVAL_MS \div 1000),
                   !.usage.samples[app] = @ + 1]

(***************************************************************************)
(* The program state as one record, and the record of a handler's run      *)
(***************************************************************************)
World ==
    [sm |-> sm, api_token |-> api_token, view |-> view, idle |-> idle,
     idleT |-> idleT, ss_active |-> ss_active, usage |-> usage, srv |-> srv,
     frozen |-> frozen,
     calls |-> << >>,        \* backend calls made, in order
     sent |-> << >>,         \* usage batches handed to report_usage, in order
     shot |-> "none",        \* what was done to the screenshot timer: started, stopped
     notes |-> << >>,        \* state_changed notifications, as the observer saw them
     warn |-> << >>,         \* warnings shown
     published |-> NoInt,    \* idle_updated.emit(idle_seconds)
     report_idx |-> NoInt,   \* the threshold index an idle report was made for
     started |-> FALSE]      \* IdleTracker.start started the poller

Event(op, w) ==
    [op |-> op, from |-> sm.state, calls |-> w.calls, notes |-> w.notes,
     warn |-> w.warn, published |-> w.published, report_idx |-> w.report_idx,
     prev_fail |-> episode.last_fail, prev_idx |-> idleT.last_idx,
     sent |-> w.sent, shot |-> w.shot]

NoEvent(op) ==
    [op |-> op, from |-> sm.state, calls |-> << >>, notes |-> << >>,
     warn |-> << >>, published |-> NoInt, report_idx |-> NoInt, prev_fail |-> NoInt,
     prev_idx |-> idleT.last_idx, sent |-> << >>, shot |-> "none"]

\* History of the idle episode: per threshold index, the report calls made
\* (issued) and those that succeeded (ok), counted up to CountCap; last_fail is
\* the index whose report failed at the poller's latest tick.
CountCap == 2
Bump(n) == IF n < CountCap THEN n + 1 ELSE n
EpisodeInit == [issued |-> <<0, 0, 0>>, ok |-> <<0, 0, 0>>, last_fail |-> NoInt]

EpisodeAfter(op, w) ==
    IF w.started THEN EpisodeInit
    ELSE IF op # "check_idle" \/ w.published = NoInt THEN episode
    ELSE IF w.report_idx # NoInt
    THEN LET i == w.report_idx + 1
             ok == w.calls[Len(w.calls)].ok
         IN [issued |-> [episode.issued EXCEPT ![i] = Bump(@)],
             ok |-> IF ok THEN [episode.ok EXCEPT ![i] = Bump(@)] ELSE episode.ok,
             last_fail |-> IF ok THEN NoInt ELSE w.report_idx]
    ELSE IF w.idleT.last_idx = -1 /\ Len(idle_report_thresholds_seconds(w.sm)) > 0
    THEN EpisodeInit
    ELSE [episode EXCEPT !.last_fail = NoInt]

\* A handler's run: the program state it leaves, and the record of the run.
CommitProgram(op, w) ==
    /\ sm' = w.sm
    /\ api_token' = w.api_token
    /\ view' = w.view
    /\ idle' = w.idle
    /\ idleT' = w.idleT
    /\ ss_active' = w.ss_active
    /\ usage' = w.usage
    /\ listener' = listener
    /\ resp' = resp
    /\ frozen' = w.frozen
    /\ srv' = w.srv
    /\ ev' = Event(op, w)

Commit(op, w) ==
    /\ CommitProgram(op, w)
    /\ episode' = EpisodeAfter(op, w)

(***************************************************************************)
(* _extract_error_message (api_client.py)                                  *)
(***************************************************************************)
\* A JSON value of an error body, as far as the function tells values apart:
\* kind "absent" (no such key), "null", "str" with text s, "number", and
\* "list" whose first element is "none" (empty list), "scalar" (not a dict),
\* or a dict: "msg" (with a non-empty msg), "loc" (no msg, a loc), "bare"
\* (neither, or an empty msg).
JsonValue(kind, s, first) == [kind |-> kind, s |-> s, first |-> first]
Absent == JsonValue("absent", "", "none")
Null == JsonValue("null", "", "none")

\* response: body "text" (response.json() raises), "array" (JSON, not an
\* object) or "object" with the three fields.
Responses ==
    LET Scalars(text) ==
            {Absent, Null, JsonValue("str", "", "none"), JsonValue("str", text, "none")}
        Lists == {JsonValue("list", "", f) : f \in {"none", "scalar", "msg", "loc", "bare"}}
    IN {[body |-> "object", detail |-> d, message |-> m, error |-> e] :
            d \in Scalars("Invalid credentials") \cup Lists
                      \cup {JsonValue("number", "", "none")},
            m \in Scalars("Account locked"),
            e \in Scalars("Forbidden")}
       \cup {[body |-> b, detail |-> Absent, message |-> Absent, error |-> Absent] :
                 b \in {"text", "array"}}

\* str(fallback_exc) of the HTTPError
TransportText == "401 Client Error: Unauthorized"
\* What a list whose first element is a dict yields: str(detail[0]["msg"]),
\* else str(detail[0]["loc"]), else str(detail[0]).
FirstElementText(first) ==
    CASE first = "msg" -> "field required"
      [] first = "loc" -> "['body', 'email']"
      [] OTHER -> "{'type': 'missing'}"

\* str(detail) of a value that is neither None nor a non-empty string
StrOf(v) ==
    CASE v.kind = "str" -> v.s
      [] v.kind = "number" -> "422"
      [] v.kind = "list" /\ v.first = "none" -> "[]"
      [] v.kind = "list" /\ v.first = "scalar" -> "['missing']"
      [] OTHER -> "None"

\* d.get(key, default)
Get(v, default) == IF v.kind # "absent" THEN v ELSE default

NoResponse == [response |-> [body |-> "none", detail |-> Absent, message |-> Absent,
                             error |-> Absent],
               shown |-> None]

_extract_error_message(response, fallback_exc) ==
    IF response.body = "text" THEN fallback_exc          \* response.json() raises
    ELSE IF response.body # "object" THEN fallback_exc   \* not a dict
    ELSE LET detail == Get(response.detail,
                           Get(response.message, Get(response.error, Null)))
         IN IF detail.kind = "str" /\ detail.s # "" THEN detail.s
            ELSE IF detail.kind = "list" /\ detail.first \in {"msg", "loc", "bare"}
            THEN FirstElementText(detail.first)
            ELSE IF detail.kind # "null" THEN StrOf(detail)
            ELSE fallback_exc

\* ActivityListener after __init__: the lock is free, the timestamp is the
\* time of construction, and no thread is inside one of its methods.
\* pc: the method and statement each thread is at; tmp: the thread's local value (now, or what it read).
Listeners == {"keyboard", "mouse"}
UiThread == "ui"
Threads == Listeners \cup {UiThread}
Free == "free"
Outside == [m |-> "none", i |-> 0]
ListenerInit ==
    [lock |-> Free, ts |-> 0, clock |-> 0,
     pc |-> [t \in Threads |-> Outside], tmp |-> [t \in Threads |-> 0]]

\* The backend at process start: the user's attendance today and their policy.
Backends ==
    {[att |-> a,
      staff |-> [isNone |-> FALSE, allow_screenshot |-> al,
                 force_break_time |-> u.force_break_time],
      rules |-> [isNone |-> FALSE, idle_minutes |-> th, usage_policy_enabled |-> TRUE],
      late |-> u.late] :
        a \in SrvAtt, al \in AllowChoices, th \in ThresholdChoices, u \in UserChoices}

(***************************************************************************)
(* The orchestrator's events                                               *)
(***************************************************************************)
Init ==
    /\ sm = StateManagerInit
    /\ api_token = None
    /\ view = "login"
    /\ idle = 0
    /\ sys_idle = NoSys
    /\ pending = 0
    /\ idleT = IdleTrackerInit
    /\ ss_active = FALSE
    /\ usage = UsageTrackerInit
    /\ listener = ListenerInit
    /\ resp = NoResponse
    /\ frozen = FALSE
    /\ srv \in Backends
    /\ ev = NoEvent("init")
    /\ episode = EpisodeInit
    /\ script = [pos |-> 0, reports |-> << >>]
    /\ hist = [path |-> <<LOGGED_OUT>>, log |-> << >>, ops |-> 0]
    /\ ledger = [sampled |-> NoUsage, delivered |-> NoUsage]

\* login_window.login_requested
HandleLogin ==
    /\ view = "login"
    /\ \E res \in {"fail", None, Token}, net \in BOOLEAN :
           Commit("login", _handle_login(World, res, net))
    /\ UNCHANGED <<sys_idle, pending, script, hist, ledger>>

\* dashboard_window.logout_requested
HandleLogout ==
    /\ view = "dashboard"
    /\ \E net \in BOOLEAN : Commit("logout", _handle_logout(World, net))
    /\ UNCHANGED <<sys_idle, pending, script, hist, ledger>>

\* The check-in/check-out button reads "Check-in" in LOGGED_OUT, else "Check-out",
\* and is disabled on a break; the break button is disabled in LOGGED_OUT.
HandleCheckIn ==
    /\ view = "dashboard"
    /\ sm.state = LOGGED_OUT
    /\ \E n1, n2 \in BOOLEAN : Commit("check_in", _handle_check_in(World, n1, n2))
    /\ UNCHANGED <<sys_idle, pending, script, hist, ledger>>

HandleCheckOut ==
    /\ view = "dashboard"
    /\ sm.state = CHECKED_IN
    /\ \E n1, n2 \in BOOLEAN : Commit("check_out", _handle_check_out(World, n1, n2))
    /\ UNCHANGED <<sys_idle, pending, script, hist, ledger>>

HandleStartBreak ==
    /\ view = "dashboard"
    /\ sm.state = CHECKED_IN
    /\ \E n1, n2 \in BOOLEAN : Commit("start_break", _handle_start_break(World, n1, n2))
    /\ UNCHANGED <<sys_idle, pending, script, hist, ledger>>

HandleEndBreak ==
    /\ view = "dashboard"
    /\ sm.state \in {ON_BREAK, FORCE_BREAK}
    /\ \E n1, n2 \in BOOLEAN : Commit("end_break", _handle_end_break(World, n1, n2))
    /\ UNCHANGED <<sys_idle, pending, script, hist, ledger>>

\* _force_break_timer, started in __init__ and never stopped
CheckForceBreak ==
    /\ \E n1, n2 \in BOOLEAN : Commit("check_force_break", _check_force_break(World, n1, n2))
    /\ UNCHANGED <<sys_idle, pending, script, hist, ledger>>

\* IdleTracker._timer, running while the poller is active
CheckIdle ==
    /\ idleT.is_active
    /\ \E net \in BOOLEAN : Commit("check_idle", _check_idle(World, net))
    /\ UNCHANGED <<sys_idle, pending, script, hist, ledger>>

\* ActivityListener._on_activity on a listener thread: the timestamp is set to
\* now and activity_detected is emitted towards the UI thread.
OnActivity ==
    /\ pending < MaxPending
    /\ idle' = 0
    /\ sys_idle' = IF sys_idle = NoSys THEN NoSys ELSE 0
    /\ pending' = pending + 1
    /\ ev' = NoEvent("activity")
    /\ UNCHANGED <<sm, api_token, view, idleT, ss_active, usage, listener, resp, frozen, srv, episode, script, hist, ledger>>

\* The UI thread runs the slot of activity_detected.
OnActivityDetected ==
    /\ pending > 0
    /\ pending' = pending - 1
    /\ \E net \in BOOLEAN : Commit("activity_detected", _on_activity_detected(World, net))
    /\ UNCHANGED <<sys_idle, script, hist, ledger>>

\* Time passes without input.
TimePassTo(values) ==
    /\ \E v \in values : v > idle /\ idle' = v
    /\ ev' = NoEvent("time")
    /\ UNCHANGED <<sm, api_token, view, sys_idle, pending, idleT, ss_active, usage, listener, resp, frozen, srv,
                   episode, script, hist, ledger>>

TimePass == TimePassTo(IdleValues)

Next ==
    \/ HandleLogin
    \/ HandleLogout
    \/ HandleCheckIn
    \/ HandleCheckOut
    \/ HandleStartBreak
    \/ HandleEndBreak
    \/ CheckForceBreak
    \/ CheckIdle
    \/ OnActivity
    \/ OnActivityDetected
    \/ TimePass

Spec == Init /\ [][Next]_vars

(***************************************************************************)
(* SpecIdle: the idle poller of a checked-in user, ticking on the idle     *)
(* durations of ScriptValues.  script follows IdleScript: pos is the       *)
(* number of latest ticks that saw IdleScript's durations in order (then a *)
(* duration below 60, then 60) with every report call succeeding, and      *)
(* reports the durations reported at those ticks.                          *)
(***************************************************************************)
IdleScript == <<0, 59, 60, 61, 300, 899, 900>>

Expected(p, v) ==
    IF p < Len(IdleScript) THEN v = IdleScript[p + 1]
    ELSE IF p = Len(IdleScript) THEN v < 60
    ELSE IF p = Len(IdleScript) + 1 THEN v = 60
    ELSE FALSE

ScriptAfter(w) ==
    LET v == w.idle
        made == w.report_idx # NoInt
        failed == made /\ ~w.calls[Len(w.calls)].ok
        rep(r) == IF made THEN Append(r, v) ELSE r
    IN IF failed \/ w.published = NoInt
          \/ idle_report_thresholds_seconds(w.sm) # <<60, 300, 900>>
       THEN [pos |-> 0, reports |-> << >>]
       ELSE IF Expected(script.pos, v)
       THEN [pos |-> script.pos + 1, reports |-> rep(script.reports)]
       ELSE IF v = IdleScript[1] THEN [pos |-> 1, reports |-> rep(<< >>)]
       ELSE [pos |-> 0, reports |-> << >>]

\* After login and check-in: CheckedIn, the idle poller just started.
InitIdle ==
    /\ srv \in {b \in Backends : b.att = "in"}
    /\ sm = [state |-> CHECKED_IN, session_token |-> Token, staff_settings |-> srv.staff,
             company_rules |-> srv.rules, check_in_time |-> CheckInTime,
             break_start_time |-> None, late_by_minutes |-> LateMinutes(srv.late)]
    /\ api_token = Token
    /\ view = "dashboard"
    /\ idle = 0
    /\ sys_idle = NoSys
    /\ pending = 0
    /\ idleT = [is_active |-> TRUE, last_idx |-> -1]
    /\ ss_active = allow_screenshot(sm)
    /\ usage = UsageTrackerInit
    /\ listener = ListenerInit
    /\ resp = NoResponse
    /\ frozen = FALSE
    /\ ev = NoEvent("init")
    /\ episode = EpisodeInit
    /\ script = [pos |-> 0, reports |-> << >>]
    /\ hist = [path |-> <<LOGGED_OUT>>, log |-> << >>, ops |-> 0]
    /\ ledger = [sampled |-> NoUsage, delivered |-> NoUsage]

CheckIdleScripted ==
    /\ idleT.is_active
    /\ \E net \in BOOLEAN :
           /\ Commit("check_idle", _check_idle(World, net))
           /\ script' = ScriptAfter(_check_idle(World, net))
    /\ UNCHANGED <<sys_idle, pending, hist, ledger>>

TimePassScript == TimePassTo(ScriptValues)

NextIdle ==
    \/ CheckIdleScripted
    \/ TimePassScript
    \/ OnActivity
    \/ OnActivityDetected

SpecIdle == InitIdle /\ [][NextIdle]_vars

(***************************************************************************)
(* SpecIdleSrc: the idle poller of a checked-in user on a platform that    *)
(* may report the system's idle time.  Both idle clocks run in steps of    *)
(* 25 s; an input the OS sees and the listener misses resets sys_idle      *)
(* alone.                                                                  *)
(***************************************************************************)
InitIdleSrc ==
    /\ srv \in {b \in Backends : b.att = "in"}
    /\ sm = [state |-> CHECKED_IN, session_token |-> Token, staff_settings |-> srv.staff,
             company_rules |-> srv.rules, check_in_time |-> CheckInTime,
             break_start_time |-> None, late_by_minutes |-> LateMinutes(srv.late)]
    /\ api_token = Token
    /\ view = "dashboard"
    /\ idle = 0
    /\ sys_idle \in {NoSys, 0}
    /\ pending = 0
    /\ idleT = [is_active |-> TRUE, last_idx |-> -1]
    /\ ss_active = allow_screenshot(sm)
    /\ usage = UsageTrackerInit
    /\ listener = ListenerInit
    /\ resp = NoResponse
    /\ frozen = FALSE
    /\ ev = NoEvent("init")
    /\ episode = EpisodeInit
    /\ script = [pos |-> 0, reports |-> << >>]
    /\ hist = [path |-> <<LOGGED_OUT>>, log |-> << >>, ops |-> 0]
    /\ ledger = [sampled |-> NoUsage, delivered |-> NoUsage]

ClockTick ==
    /\ idle < 25 * MaxClock
    /\ idle' = idle + 25
    /\ sys_idle' = IF sys_idle = NoSys THEN NoSys ELSE sys_idle + 25
    /\ ev' = NoEvent("time")
    /\ UNCHANGED <<sm, api_token, view, pending, idleT, ss_active, usage, listener, resp, frozen, srv, episode,
                   script, hist, ledger>>

SystemInput ==
    /\ sys_idle # NoSys
    /\ sys_idle' = 0
    /\ ev' = NoEvent("system_input")
    /\ UNCHANGED <<sm, api_token, view, idle, pending, idleT, ss_active, usage, listener, resp, frozen, srv,
                   episode, script, hist, ledger>>

NextIdleSrc ==
    \/ CheckIdle
    \/ ClockTick
    \/ SystemInput
    \/ OnActivity
    \/ OnActivityDetected

SpecIdleSrc == InitIdleSrc /\ [][NextIdleSrc]_vars

(***************************************************************************)
(* SpecSM: any sequence of at most MaxOps StateManager operations, with    *)
(* the observer of state_changed connected.  hist.path is the sequence of  *)
(* statuses taken, hist.log the statuses notified.                         *)
(***************************************************************************)
SMOp(op, w) ==
    /\ hist.ops < MaxOps
    /\ Commit(op, w)
    /\ hist' = [path |-> IF w.sm.state # sm.state
                         THEN Append(hist.path, w.sm.state) ELSE hist.path,
                log |-> hist.log \o [i \in 1..Len(w.notes) |-> w.notes[i].state],
                ops |-> hist.ops + 1]
    /\ UNCHANGED <<sys_idle, pending, script, ledger>>

SMSetLoginData == SMOp("set_login_data", set_login_data(World, Token, srv.staff, srv.rules))
SMSetCheckIn == \E late \in {NoInt, 5} : SMOp("set_check_in", set_check_in(World, CheckInTime, late))
SMSetBreakStart == \E f \in BOOLEAN : SMOp("set_break_start", set_break_start(World, BreakTime, f))
SMSetBreakEnd == SMOp("set_break_end", set_break_end(World))
SMSetCheckOut == SMOp("set_check_out", set_check_out(World))
SMLogout == SMOp("logout", logout(World))

InitSM == Init /\ srv.att = "out" /\ srv.late = 300

NextSM ==
    \/ SMSetLoginData
    \/ SMSetCheckIn
    \/ SMSetBreakStart
    \/ SMSetBreakEnd
    \/ SMSetCheckOut
    \/ SMLogout

SpecSM == InitSM /\ [][NextSM]_vars

(***************************************************************************)
(* SpecSync: the orchestrator's handlers and the periodic check of a user  *)
(* without idle thresholds, while an administrator may change the user's   *)
(* screenshot permission at the backend.                                   *)
(***************************************************************************)
InitSync == Init /\ srv.rules.idle_minutes = << >>

PolicyChange ==
    /\ \E al \in AllowChoices :
           /\ al # srv.staff.allow_screenshot
           /\ srv' = [srv EXCEPT !.staff.allow_screenshot = al]
    /\ ev' = NoEvent("policy")
    /\ UNCHANGED <<sm, api_token, view, idle, sys_idle, pending, idleT, ss_active, usage, listener, resp, frozen,
                   episode, script, hist, ledger>>

NextSync ==
    \/ HandleLogin
    \/ HandleLogout
    \/ HandleCheckIn
    \/ HandleCheckOut
    \/ HandleStartBreak
    \/ HandleEndBreak
    \/ CheckForceBreak
    \/ PolicyChange

SpecSync == InitSync /\ [][NextSync]_vars

(***************************************************************************)
(* SpecServer: SpecSync without two assumptions.  The application keeps    *)
(* running into the next day, when the backend's attendance of "today" is  *)
(* empty again; and the check-in slot may be invoked while the login page  *)
(* is shown (check_in_requested is connected to it for the whole life of   *)
(* the application), which is when no credential is held.                  *)
(***************************************************************************)
NewDay ==
    /\ srv.att # "out"
    /\ srv' = [srv EXCEPT !.att = "out"]
    /\ ev' = NoEvent("new_day")
    /\ UNCHANGED <<sm, api_token, view, idle, sys_idle, pending, idleT, ss_active, usage,
                   listener, resp, frozen, episode, script, hist, ledger>>

CheckInSlot ==
    /\ view = "login"
    /\ sm.state = LOGGED_OUT
    /\ \E n1, n2 \in BOOLEAN : Commit("check_in", _handle_check_in(World, n1, n2))
    /\ UNCHANGED <<sys_idle, pending, script, hist, ledger>>

\* A login that the backend answers with the token of a new session.
LoginOther ==
    /\ view = "login"
    /\ \E net \in BOOLEAN : Commit("login", _handle_login(World, OtherToken, net))
    /\ UNCHANGED <<sys_idle, pending, script, hist, ledger>>

NextServer ==
    \/ NextSync
    \/ LoginOther
    \/ NewDay
    \/ CheckInSlot

SpecServer == InitSync /\ [][NextServer]_vars

(***************************************************************************)
(* SpecPollers: the three pollers of a logged-in user, driven by their     *)
(* timers and by calls of start and stop, while StateManager operations    *)
(* (with the orchestrator's observer connected) change status and policy.  *)
(***************************************************************************)
\* After a login whose status sync failed.
InitPollers ==
    /\ srv \in {b \in Backends : b.att = "in" /\ b.late = 0 /\ b.rules.idle_minutes # << >>}
    /\ sm = [state |-> LOGGED_OUT, session_token |-> Token, staff_settings |-> srv.staff,
             company_rules |-> srv.rules, check_in_time |-> None,
             break_start_time |-> None, late_by_minutes |-> NoInt]
    /\ api_token = Token
    /\ view = "dashboard"
    /\ idle = 0
    /\ sys_idle = NoSys
    /\ pending = 0
    /\ idleT = IdleTrackerInit
    /\ ss_active = FALSE
    /\ usage = UsageTrackerInit
    /\ listener = ListenerInit
    /\ resp = NoResponse
    /\ frozen = FALSE
    /\ ev = NoEvent("init")
    /\ episode = EpisodeInit
    /\ script = [pos |-> 0, reports |-> << >>]
    /\ hist = [path |-> <<LOGGED_OUT>>, log |-> << >>, ops |-> 0]
    /\ ledger = [sampled |-> NoUsage, delivered |-> NoUsage]

PollerOp(op, w) ==
    /\ CommitProgram(op, w)
    /\ UNCHANGED <<sys_idle, pending, episode, script, hist, ledger>>

PSetCheckIn == PollerOp("set_check_in", set_check_in(World, CheckInTime, NoInt))
PSetBreakStart == \E f \in BOOLEAN : PollerOp("set_break_start", set_break_start(World, BreakTime, f))
PSetBreakEnd == PollerOp("set_break_end", set_break_end(World))
PSetCheckOut == PollerOp("set_check_out", set_check_out(World))
PMergeStaff ==
    \E al \in AllowChoices :
        PollerOp("merge_staff_settings",
                 merge_staff_settings(World, [srv.staff EXCEPT !.allow_screenshot = al]))
PSetLoginData ==
    \E up \in BOOLEAN :
        PollerOp("set_login_data",
                 set_login_data(World, Token, sm.staff_settings,
                                [srv.rules EXCEPT !.usage_policy_enabled = up]))

\* ScreenshotService.start / stop called, and its timer
ShotStart == PollerOp("shot_start", ScreenshotStart(World))
ShotStop == PollerOp("shot_stop", ScreenshotStop(World))
ShotTick ==
    /\ ss_active
    /\ \E cap, net \in BOOLEAN : PollerOp("shot_tick", _capture_and_upload(World, cap, net))

\* UsageTracker.start / stop called, and its two timers
UsageStartCall == PollerOp("usage_start", UsageStart(World))
UsageStopCall == \E net \in BOOLEAN : PollerOp("usage_stop", UsageStop(World, net))
UsageSample ==
    /\ usage.is_active
    /\ \E app \in Keys \cup {NoApp}, net \in BOOLEAN :
           /\ app \in Keys => usage.samples[app] < MaxSamples
           /\ PollerOp("usage_sample", _sample(World, app, net))
UsageReport ==
    /\ usage.is_active
    /\ \E net \in BOOLEAN : PollerOp("usage_report", _report(World, net))

\* IdleTracker's timer
\* IdleTracker.start / stop called, and its timer
IdleStartCall == PollerOp("idle_start", IdleStart(World))
IdleStopCall == PollerOp("idle_stop", IdleStop(World))
IdleTick ==
    /\ idleT.is_active
    /\ \E net \in BOOLEAN : PollerOp("check_idle", _check_idle(World, net))

\* Time passes up to the first idle threshold.
TimePassFirst == TimePassTo({60})

NextPollers ==
    \/ PSetCheckIn
    \/ PSetBreakStart
    \/ PSetBreakEnd
    \/ PSetCheckOut
    \/ PMergeStaff
    \/ PSetLoginData
    \/ ShotStart
    \/ ShotStop
    \/ ShotTick
    \/ UsageStartCall
    \/ UsageStopCall
    \/ UsageSample
    \/ UsageReport
    \/ IdleStartCall
    \/ IdleStopCall
    \/ IdleTick
    \/ TimePassFirst

SpecPollers == InitPollers /\ [][NextPollers]_vars

(***************************************************************************)
(* SpecUsage: the usage poller alone, with a ledger of its session (from a *)
(* start to the next stop): per key, the seconds sampled (10 for every     *)
(* sample tick that resolved the key) and the seconds of the batches whose *)
(* send succeeded.  A start opens a new ledger.                            *)
(***************************************************************************)
UsageOp(op, w, app) ==
    /\ CommitProgram(op, w)
    /\ ledger' =
          IF ~w.usage.is_active THEN ledger
          ELSE IF ~usage.is_active THEN [sampled |-> NoUsage, delivered |-> NoUsage]
          ELSE [sampled |-> [k \in Keys |->
                    ledger.sampled[k] + (IF k = app THEN SAMPLE_INTERVAL_MS \div 1000 ELSE 0)],
                delivered |-> [k \in Keys |->
                    LET ents == UNION {w.sent[i].batch :
                                          i \in {j \in 1..Len(w.sent) : w.sent[j].ok}}
                    IN IF \E ent \in ents : KeyOf(ent) = k
                       THEN ledger.delivered[k] +
                            (CHOOSE ent \in ents : KeyOf(ent) = k).duration_seconds
                       ELSE ledger.delivered[k]]]
    /\ UNCHANGED <<sys_idle, pending, episode, script, hist>>

\* UsageTracker.start / stop called
SessionSwitch ==
    \/ UsageOp("usage_start", UsageStart(World), NoApp)
    \/ \E net \in BOOLEAN : UsageOp("usage_stop", UsageStop(World, net), NoApp)

\* _sample_timer: a tick that resolves app, or no application
SessionSample ==
    /\ usage.is_active
    /\ \E app \in Keys \cup {NoApp}, net \in BOOLEAN :
           /\ app \in Keys => ledger.sampled[app] < MaxSamples * (SAMPLE_INTERVAL_MS \div 1000)
           /\ UsageOp("usage_sample", _sample(World, app, net), app)

\* _report_timer
SessionReport ==
    /\ usage.is_active
    /\ \E net \in BOOLEAN : UsageOp("usage_report", _report(World, net), NoApp)

NextUsage ==
    \/ PSetCheckIn
    \/ PSetBreakStart
    \/ SessionSwitch
    \/ SessionSample
    \/ SessionReport

SpecUsage == InitPollers /\ [][NextUsage]_vars

(***************************************************************************)
(* SpecError: a request answered with a non-2xx status; _post and _get     *)
(* raise the text that _extract_error_message takes from the response.     *)
(***************************************************************************)
InitError ==
    /\ InitSM
    /\ srv.staff.allow_screenshot = "True"
    /\ srv.rules.idle_minutes = << >>

\* The backend answers a request with an error response.
HTTPError ==
    /\ \E r \in Responses : resp' = [response |-> r, shown |-> None]
    /\ UNCHANGED <<sm, api_token, view, idle, sys_idle, pending, idleT, ss_active, usage,
                   listener, frozen, srv, ev, episode, script, hist, ledger>>

\* except requests.exceptions.HTTPError in _post and _get
RaiseMessage ==
    /\ resp.response.body # "none"
    /\ resp.shown = None
    /\ resp' = [resp EXCEPT !.shown = _extract_error_message(resp.response, TransportText)]
    /\ UNCHANGED <<sm, api_token, view, idle, sys_idle, pending, idleT, ss_active, usage,
                   listener, frozen, srv, ev, episode, script, hist, ledger>>

NextError ==
    \/ HTTPError
    \/ RaiseMessage

SpecError == InitError /\ [][NextError]_vars

(***************************************************************************)
(* SpecLock: the pynput listener threads run _on_activity while the UI     *)
(* thread runs get_last_activity_time, get_seconds_since_last_activity and *)
(* reset, one statement at a time.  datetime.now() is a clock that does    *)
(* not go back.                                                            *)
(***************************************************************************)
InitLock == InitSM /\ srv.staff.allow_screenshot = "True"

LockStep(l) ==
    /\ listener' = l
    /\ UNCHANGED <<sm, api_token, view, idle, sys_idle, pending, idleT, ss_active, usage,
                   resp, frozen, srv, ev, episode, script, hist, ledger>>

\* The methods a thread runs, and the statements of each that matter here:
\* acquire and release are the entry and exit of `with self._lock:`, now is
\* datetime.now() into a local value, store and load are the write and the read
\* of self._last_activity_time, emit is activity_detected.emit().
Methods(t) ==
    IF t \in Listeners THEN {"_on_activity"}
    ELSE {"get_last_activity_time", "get_seconds_since_last_activity", "reset"}

Statements(m) ==
    CASE m = "_on_activity" -> <<"acquire", "now", "store", "release", "emit">>
      [] m = "get_last_activity_time" -> <<"acquire", "load", "release">>
      [] m = "get_seconds_since_last_activity" -> <<"now", "acquire", "load", "release">>
      [] m = "reset" -> <<"acquire", "now", "store", "release">>

\* The statement thread t is about to run, "none" outside the methods.
Stmt(t) ==
    IF listener.pc[t] = Outside THEN "none"
    ELSE Statements(listener.pc[t].m)[listener.pc[t].i]

\* Thread t has run its statement.
Advance(l, t) ==
    IF l.pc[t].i = Len(Statements(l.pc[t].m))
    THEN [l EXCEPT !.pc[t] = Outside, !.tmp[t] = 0]
    ELSE [l EXCEPT !.pc[t].i = @ + 1]

\* A pynput callback or a caller on the UI thread enters a method.
Enter(t) ==
    /\ listener.pc[t] = Outside
    /\ \E m \in Methods(t) : LockStep([listener EXCEPT !.pc[t] = [m |-> m, i |-> 1]])

\* Variant: the block is entered without waiting for the lock.
Acquire_unlocked(t) ==
    /\ Stmt(t) = "acquire"
    /\ LockStep(Advance(listener, t))

Acquire(t) ==
    /\ Stmt(t) = "acquire"
    /\ listener.lock = Free
    /\ LockStep(Advance([listener EXCEPT !.lock = t], t))

Release(t) ==
    /\ Stmt(t) = "release"
    /\ LockStep(Advance([listener EXCEPT !.lock = Free], t))

ReadNow(t) ==
    /\ Stmt(t) = "now"
    /\ LockStep(Advance([listener EXCEPT !.tmp[t] = listener.clock], t))

Store(t) ==
    /\ Stmt(t) = "store"
    /\ LockStep(Advance([listener EXCEPT !.ts = listener.tmp[t]], t))

Load(t) ==
    /\ Stmt(t) = "load"
    /\ LockStep(Advance([listener EXCEPT !.tmp[t] = listener.ts], t))

Emit(t) ==
    /\ Stmt(t) = "emit"
    /\ LockStep(Advance(listener, t))

\* The clock advances.
NowAdvances ==
    /\ listener.clock < MaxNow
    /\ LockStep([listener EXCEPT !.clock = @ + 1])

NextLock ==
    \/ \E t \in Threads : Enter(t)
    \/ \E t \in Threads : Acquire(t)
    \/ \E t \in Threads : Release(t)
    \/ \E t \in Threads : ReadNow(t)
    \/ \E t \in Threads : Store(t)
    \/ \E t \in Threads : Load(t)
    \/ \E t \in Threads : Emit(t)
    \/ NowAdvances

SpecLock == InitLock /\ [][NextLock]_vars

(***************************************************************************)
(* Properties                                                              *)
(***************************************************************************)
ReportCalls(calls) == {k \in 1..Len(calls) : calls[k].name = "report_idle"}
Thresholds == idle_report_thresholds_seconds(sm)

\* C1 (SpecIdle): with thresholds [60,300,900] and ticks that see the idle
\* durations 0,59,60,61,300,899,900 in that order, every report call
\* succeeding, exactly three reports are made, at the ticks with 60, 300 and
\* 900; a later tick below 60 followed by a tick at 60 makes exactly one more.
C1_ScriptReports ==
    /\ script.pos \in {1, 2} => script.reports = << >>
    /\ script.pos \in {3, 4} => script.reports = <<60>>
    /\ script.pos \in {5, 6} => script.reports = <<60, 300>>
    /\ script.pos \in {7, 8} => script.reports = <<60, 300, 900>>
    /\ script.pos = 9 => script.reports = <<60, 300, 900, 60>>

C1_Witness == script.pos = 9 /\ Len(script.reports) = 4

\* C2, as claimed: within one idle episode at most one report call is made per
\* threshold index, whatever the outcomes of the calls, and a tick makes at
\* most one.
C2_OneCallPerIndex ==
    /\ \A i \in 1..3 : episode.issued[i] <= 1
    /\ Cardinality(ReportCalls(ev.calls)) <= 1

\* C2, amended: every tick makes at most one report call, and within one idle
\* episode at most one report per threshold index succeeds (a report that
\* failed is made again for the same index).
C2_OneReportPerIndex ==
    /\ \A i \in 1..3 : episode.ok[i] <= 1
    /\ Cardinality(ReportCalls(ev.calls)) <= 1

C2_Witness ==
    /\ episode.issued[1] = 2
    /\ episode.ok = <<1, 1, 1>>

\* C3: with an empty threshold list no tick of the idle poller makes an idle
\* report, whatever the idle duration.
C3_NoThresholdsNoReport ==
    (ev.op = "check_idle" /\ Len(Thresholds) = 0) => ReportCalls(ev.calls) = {}

C3_Witness ==
    /\ ev.op = "check_idle"
    /\ Len(Thresholds) = 0
    /\ ev.published = 900

\* C4: a tick whose report call fails leaves the last-reported index as it was
\* and the poller active, and the poller's next tick, if its idle duration
\* still reaches the threshold of the failed report, makes a report again, for
\* the same or a later threshold.
C4_FailedReportRetried ==
    ev.op = "check_idle" =>
        /\ (ev.report_idx # NoInt /\ ~ev.calls[Len(ev.calls)].ok) =>
               (idleT.last_idx = ev.prev_idx /\ idleT.is_active)
        /\ (ev.prev_fail # NoInt /\ ev.published # NoInt
              /\ Len(Thresholds) > ev.prev_fail
              /\ ev.published >= Thresholds[ev.prev_fail + 1]) =>
               (ev.report_idx # NoInt /\ ev.report_idx >= ev.prev_fail)

C4_Witness ==
    /\ ev.op = "check_idle"
    /\ ev.prev_fail = 1
    /\ ev.report_idx = 1
    /\ ev.calls[Len(ev.calls)].ok
    /\ idleT.last_idx = 1

\* C5 (SpecIdleSrc): the idle duration the poller publishes and reports is the
\* minimum of the listener's and the OS's idle time when the OS gives one.
C5_ReportsMinimum ==
    (ev.op = "check_idle" /\ ev.published # NoInt) =>
        /\ ev.published = get_seconds_since_last_activity(idle, sys_idle)
        /\ \A k \in ReportCalls(ev.calls) :
               ev.calls[k].arg = get_seconds_since_last_activity(idle, sys_idle)

\* The case of the claim: the listener's last activity 125 s ago, the OS's 100 s.
C5_Case ==
    /\ ev.op = "check_idle"
    /\ idle = 125
    /\ sys_idle = 100
    /\ ReportCalls(ev.calls) # {}

\* C6 (SpecSM): state_changed is emitted exactly once by each operation that
\* changes the status and by no operation that sets the status it already
\* has, so the statuses notified are the statuses taken;
\* LoggedOut, CheckedIn, OnBreak, CheckedIn, LoggedOut gives four.
C6_OneNotificationPerChange ==
    /\ hist.log = Tail(hist.path)
    /\ Len(ev.notes) = (IF sm.state # ev.from THEN 1 ELSE 0)
    /\ hist.path = <<LOGGED_OUT, CHECKED_IN, ON_BREAK, CHECKED_IN, LOGGED_OUT>>
           => Len(hist.log) = 4

C6_Witness ==
    /\ hist.path = <<LOGGED_OUT, CHECKED_IN, ON_BREAK, CHECKED_IN, LOGGED_OUT>>
    /\ hist.ops = 5
    /\ Len(hist.log) = 4

\* C7: when the observer is notified of a status, the fields already hold the
\* values of the transition: check_in_time and late_by_minutes on CheckedIn,
\* break_start_time on a break, cleared fields on LoggedOut; they are the
\* values the handler leaves.
C7_ObserverSeesFields ==
    /\ \A k \in 1..Len(ev.notes) :
           LET n == ev.notes[k] IN
           /\ n.state = CHECKED_IN =>
                  /\ n.check_in_time = CheckInTime
                  /\ ev.op \notin {"activity_detected", "set_break_end", "set_check_in"}
                         => n.late_by_minutes = LateMinutes(srv.late)
           /\ n.state \in {ON_BREAK, FORCE_BREAK} => n.break_start_time = BreakTime
           /\ n.state = LOGGED_OUT =>
                  /\ n.check_in_time = None
                  /\ n.break_start_time = None
                  /\ n.late_by_minutes = NoInt
    /\ ev.notes # << >> =>
           LET n == ev.notes[Len(ev.notes)] IN
           /\ n.state = sm.state
           /\ n.check_in_time = sm.check_in_time
           /\ n.break_start_time = sm.break_start_time
           /\ n.late_by_minutes = sm.late_by_minutes
           /\ n.session_token = sm.session_token

C7_Witness ==
    /\ ev.op = "check_in"
    /\ ev.notes # << >>
    /\ ev.notes[1].state = CHECKED_IN
    /\ ev.notes[1].late_by_minutes = 5

\* C8: once the periodic check has moved the status to ForceBreak, a further
\* periodic check (with its status poll) makes no force-break-start call and
\* leaves the status ForceBreak.
C8_ForceBreakStays ==
    [][(ev'.op = "check_force_break" /\ sm.state = FORCE_BREAK) =>
          /\ sm'.state = FORCE_BREAK
          /\ \A k \in 1..Len(ev'.calls) : ev'.calls[k].name # "force_break_start"]_vars

\* C9: an activity event delivered in ForceBreak makes the end-break call and,
\* when the call succeeds, the status is CheckedIn, with no warning shown; an
\* activity event delivered in any other status makes no call and changes
\* nothing.
C9_ActivityEndsForceBreak ==
    [][ev'.op = "activity_detected" =>
          IF sm.state = FORCE_BREAK
          THEN /\ Len(ev'.calls) = 1
               /\ ev'.calls[1].name = "end_break"
               /\ ev'.calls[1].ok => (sm'.state = CHECKED_IN /\ sm'.break_start_time = None)
               /\ ~ev'.calls[1].ok => sm' = sm
               /\ ev'.warn = << >>
          ELSE /\ ev'.calls = << >>
               /\ UNCHANGED <<sm, api_token, view, idle, idleT, ss_active, srv>>]_vars

C9_Witness ==
    /\ ev.op = "activity_detected"
    /\ ev.from = FORCE_BREAK
    /\ sm.state = CHECKED_IN

C11_ForceBreakLeavesOnlyByEndOrLogout ==
    [][sm.state = FORCE_BREAK => sm'.state \in {FORCE_BREAK, CHECKED_IN, LOGGED_OUT}]_vars

\* C12: after a logout, from any status and whether the backend logout call
\* succeeded or failed, the status is LoggedOut, the credential is absent in
\* the state and in the API client, staff settings and company rules are
\* cleared, check_in_time, break_start_time and late_by_minutes are cleared,
\* and no warning was shown.
C12_LogoutClearsAll ==
    ev.op = "logout" =>
        /\ sm.state = LOGGED_OUT
        /\ sm.session_token = None
        /\ api_token = None
        /\ sm.staff_settings = NoneDict
        /\ sm.company_rules = NoRules
        /\ sm.check_in_time = None
        /\ sm.break_start_time = None
        /\ sm.late_by_minutes = NoInt
        /\ ev.warn = << >>
        /\ view = "login"

\* A logout during a force break whose backend call failed.
C12_Witness ==
    /\ ev.op = "logout"
    /\ ev.from = FORCE_BREAK
    /\ Len(ev.calls) = 1
    /\ ~ev.calls[1].ok
    /\ sm.state = LOGGED_OUT

\* C14: in every state with status CheckedIn the break_start_time is absent,
\* however the break before it was ended.
C14_CheckedInHasNoBreakStart ==
    sm.state = CHECKED_IN => sm.break_start_time = None

\* C15: after every completed event the idle poller is active exactly when the
\* status is CheckedIn: every change to CheckedIn starts it (last-reported
\* index -1) and every change to OnBreak, ForceBreak or LoggedOut stops it.
C15_IdlePollerIffCheckedIn ==
    /\ idleT.is_active <=> sm.state = CHECKED_IN
    /\ (ev.notes # << >> /\ sm.state = CHECKED_IN /\ ev.from # CHECKED_IN)
           => (idleT.is_active /\ idleT.last_idx = -1)

\* The idle poller stopped by a force break.
C15_Witness ==
    /\ ev.op = "check_force_break"
    /\ ev.from = CHECKED_IN
    /\ sm.state = FORCE_BREAK
    /\ ~idleT.is_active

\* C19: whenever the status becomes CheckedIn while the usage policy is
\* enabled the usage poller is started, whenever the status becomes OnBreak,
\* ForceBreak or LoggedOut it is stopped, and it is never active while the
\* status is not CheckedIn or the usage policy is disabled.
C19_UsagePollerFollowsStatus ==
    [][/\ (sm'.state = CHECKED_IN /\ sm.state # CHECKED_IN /\ usage_policy_enabled(sm'))
              => usage'.is_active
       /\ (sm'.state # CHECKED_IN /\ sm.state = CHECKED_IN) => ~usage'.is_active
       /\ usage'.is_active => (sm'.state = CHECKED_IN /\ usage_policy_enabled(sm'))]_vars

\* C13, as claimed (SpecSync): a check-out whose backend call succeeds ends
\* with status LoggedOut and check_in_time, break_start_time and
\* late_by_minutes cleared, the credential and the policy (staff settings,
\* company rules) unchanged, whether the follow-up sync succeeds or fails.
C13_CheckOutKeepsPolicy ==
    [][(ev'.op = "check_out" /\ ev'.calls[1].ok) =>
          /\ sm'.state = LOGGED_OUT
          /\ sm'.check_in_time = None
          /\ sm'.break_start_time = None
          /\ sm'.late_by_minutes = NoInt
          /\ sm'.session_token = sm.session_token
          /\ api_token' = api_token
          /\ sm'.company_rules = sm.company_rules
          /\ sm'.staff_settings = sm.staff_settings]_vars

\* C13, amended (SpecSync): ... the credential and the company rules are
\* unchanged and the staff settings are not cleared: they are unchanged when
\* the follow-up sync fails, and hold the staff fields of the backend's answer
\* when it succeeds.
C13_CheckOutClearsAttendance ==
    [][(ev'.op = "check_out" /\ ev'.calls[1].ok) =>
          /\ sm'.state = LOGGED_OUT
          /\ sm'.check_in_time = None
          /\ sm'.break_start_time = None
          /\ sm'.late_by_minutes = NoInt
          /\ sm'.session_token = sm.session_token
          /\ sm'.session_token # None
          /\ api_token' = api_token
          /\ sm'.company_rules = sm.company_rules
          /\ Len(ev'.calls) = 2
          /\ ev'.calls[2].name = "stats"
          /\ ~ev'.calls[2].ok => sm'.staff_settings = sm.staff_settings
          /\ ev'.calls[2].ok => sm'.staff_settings = srv.staff
          /\ ev'.notes # << >>]_vars

\* A check-out whose follow-up sync failed, after the backend's policy changed.
C13_Witness ==
    /\ ev.op = "check_out"
    /\ Len(ev.calls) = 2
    /\ ev.calls[1].ok
    /\ ~ev.calls[2].ok
    /\ sm.state = LOGGED_OUT
    /\ sm.session_token = Token
    /\ sm.staff_settings # srv.staff
    /\ ~sm.staff_settings.isNone

UploadCalls(calls) == {k \in 1..Len(calls) : calls[k].name = "upload_screenshot"}

\* C16 (SpecPollers): a screenshot is captured and uploaded only by a tick of
\* the active screenshot timer that finds status CheckedIn and
\* allow_screenshot true; a tick that finds either false stops the timer and
\* captures nothing.
C16_CaptureOnlyWhenAllowed ==
    [][/\ UploadCalls(ev'.calls) # {} =>
              (ev'.op = "shot_tick" /\ ss_active /\ sm.state = CHECKED_IN
                   /\ allow_screenshot(sm))
       /\ ev'.op = "shot_tick" =>
              IF sm.state = CHECKED_IN /\ allow_screenshot(sm)
              THEN ss_active' /\ Len(ev'.calls) <= 1 /\ ev'.shot = "none"
              ELSE ~ss_active' /\ ev'.calls = << >> /\ ev'.shot = "stopped"]_vars

\* A tick that found allow_screenshot false while CheckedIn.
C16_Witness ==
    /\ ev.op = "shot_tick"
    /\ ev.shot = "stopped"
    /\ ev.calls = << >>
    /\ sm.state = CHECKED_IN
    /\ ~allow_screenshot(sm)
    /\ ~ss_active

\* C17 (SpecPollers): a call of ScreenshotService.start activates the timer
\* exactly when it is inactive, the status is CheckedIn and allow_screenshot is
\* true; otherwise it changes nothing, and an inactive service uploads nothing.
C17_StartActivatesWhenAllowed ==
    [][/\ ev'.op = "shot_start" =>
              /\ ss_active' = (ss_active \/ (sm.state = CHECKED_IN /\ allow_screenshot(sm)))
              /\ (ev'.shot = "started") =
                     (~ss_active /\ sm.state = CHECKED_IN /\ allow_screenshot(sm))
              /\ ev'.calls = << >>
              /\ sm' = sm
       /\ ~ss_active => UploadCalls(ev'.calls) = {}]_vars

\* The backend's answer at login said allow_screenshot "no"; a merge made it
\* true, and a call of start then activated the timer.
C17_Witness ==
    /\ ev.op = "shot_start"
    /\ ev.shot = "started"
    /\ ss_active
    /\ srv.staff.allow_screenshot = "no"
    /\ allow_screenshot(sm)
    /\ sm.state = CHECKED_IN

\* C18 (SpecPollers): a timer tick of a poller (idle check, screenshot
\* capture, usage flush) whose backend call fails leaves every poller as
\* active as it was, so the ticking poller stays active, leaves the
\* StateManager unchanged and shows no warning.
C18_FailedReportKeepsPoller ==
    [][(/\ ev'.op \in {"check_idle", "shot_tick", "usage_report"}
        /\ \E k \in 1..Len(ev'.calls) : ~ev'.calls[k].ok) =>
          /\ sm' = sm
          /\ idleT'.is_active = idleT.is_active
          /\ ss_active' = ss_active
          /\ usage'.is_active = usage.is_active
          /\ ev'.op = "check_idle" => idleT'.is_active
          /\ ev'.op = "shot_tick" => ss_active'
          /\ ev'.op = "usage_report" => usage'.is_active
          /\ ev'.warn = << >>
          /\ ev'.notes = << >>]_vars

\* A screenshot tick whose upload failed.
C18_Witness ==
    /\ ev.op = "shot_tick"
    /\ Len(ev.calls) = 1
    /\ ev.calls[1].name = "upload_screenshot"
    /\ ~ev.calls[1].ok
    /\ ss_active
    /\ sm.state = CHECKED_IN

\* C20 (SpecPollers): the accumulator holds, for every (app, site), the number
\* of samples of it times the sampling interval in seconds (10); a flush of a
\* non-empty accumulator sends one request whose batch has exactly one entry
\* per sampled pair, with that duration, and after a successful send the
\* accumulator is empty.
C20_FlushSendsAccumulated ==
    [][/\ \A k \in Keys : usage'.acc[k] = usage'.samples[k] * 10
       /\ ev'.op \in {"usage_report", "usage_stop"} =>
              /\ Len(ev'.sent) = (IF usage.is_active /\ usage.acc # NoUsage THEN 1 ELSE 0)
              /\ Len(ev'.calls) = Len(ev'.sent)
              /\ \A i \in 1..Len(ev'.sent) :
                     /\ ev'.sent[i].batch =
                            {Entry(k, usage.samples[k] * 10) :
                                 k \in {k \in Keys : usage.samples[k] > 0}}
                     /\ ev'.sent[i].ok => usage'.acc = NoUsage
                     /\ ev'.sent[i].ok = ev'.calls[i].ok]_vars

\* Three samples of ("Chrome", "site.com") and a successful flush.
C20_Witness ==
    /\ ev.op = "usage_report"
    /\ ev.sent = <<[batch |-> {Entry(<<"Chrome", "site.com">>, 30)}, ok |-> TRUE]>>
    /\ usage.acc = NoUsage
    /\ usage.is_active

\* C21 (SpecPollers): a flush (_report on the report timer) whose send fails
\* leaves the accumulator as it was before the flush, for every (app, site)
\* key, the keys with an empty site included.
C21_FailedFlushRestores ==
    [][(/\ ev'.op = "usage_report"
        /\ \E i \in 1..Len(ev'.sent) : ~ev'.sent[i].ok) =>
          /\ \A k \in Keys : usage'.acc[k] = usage.acc[k]
          /\ usage'.samples = usage.samples]_vars

\* A failed flush of an accumulator that held both a key with a site and a
\* key with an empty site.
C21_Witness ==
    /\ ev.op = "usage_report"
    /\ Len(ev.sent) = 1
    /\ ~ev.sent[1].ok
    /\ ev.sent[1].batch = {Entry(<<"Chrome", "site.com">>, 20), Entry(<<"Code", "">>, 10)}
    /\ usage.acc[<<"Chrome", "site.com">>] = 20
    /\ usage.acc[<<"Code", "">>] = 10

\* C22 (SpecPollers): usage data whose send failed is still in the
\* accumulator after the step that tried to send it, whether the flush came
\* from the report timer or from stopping the poller, so that the next flush
\* sends it again.
C22_FailedUsageDataIsKept ==
    [][\A i \in 1..Len(ev'.sent) :
           ~ev'.sent[i].ok =>
               \A ent \in ev'.sent[i].batch :
                   usage'.acc[KeyOf(ent)] >= ent.duration_seconds]_vars

UserActions == {"login", "check_in", "check_out", "start_break", "end_break"}

\* C23 (SpecSync): when the backend call of a user action (login, check-in,
\* check-out, start break, end break) fails, a warning is shown, no further
\* call is made, and the StateManager (status, credential, policy, check-in
\* and break fields), the API client's credential and the view are unchanged.
C23_FailedActionChangesNothing ==
    [][(/\ ev'.op \in UserActions
        /\ Len(ev'.calls) >= 1
        /\ ~ev'.calls[1].ok) =>
          /\ sm' = sm
          /\ api_token' = api_token
          /\ view' = view
          /\ Len(ev'.calls) = 1
          /\ Len(ev'.warn) = 1
          /\ ev'.notes = << >>]_vars

\* A start-break request whose call failed while CheckedIn.
C23_Witness ==
    /\ ev.op = "start_break"
    /\ Len(ev.calls) = 1
    /\ ev.calls[1].name = "start_break"
    /\ ~ev.calls[1].ok
    /\ ev.warn = <<"Break Failed">>
    /\ sm.state = CHECKED_IN

\* C24 (SpecServer): a check-in requested while the API client holds no
\* credential shows the warning "Check-in Failed", makes no backend call and
\* leaves the StateManager, the API client's credential and the view unchanged.
C24_CheckInWithoutCredentialBlocked ==
    [][(ev'.op = "check_in" /\ api_token = None) =>
          /\ ev'.warn = <<"Check-in Failed">>
          /\ ev'.calls = << >>
          /\ ev'.notes = << >>
          /\ sm' = sm
          /\ api_token' = api_token
          /\ view' = view
          /\ srv' = srv]_vars

\* A blocked check-in after a logout that followed a completed login.
C24_Witness ==
    /\ ev.op = "check_in"
    /\ api_token = None
    /\ sm.session_token = None
    /\ ev.warn = <<"Check-in Failed">>
    /\ ev.calls = << >>
    /\ srv.att = "in"

\* C25 (SpecSync): when the check-in call succeeds from status LOGGED_OUT, the
\* status is CHECKED_IN with check_in_time set when the handler returns,
\* whether the status sync that follows succeeds or fails.
C25_CheckInReachesCheckedIn ==
    [][(/\ ev'.op = "check_in"
        /\ sm.state = LOGGED_OUT
        /\ Len(ev'.calls) >= 1
        /\ ev'.calls[1].name = "check_in"
        /\ ev'.calls[1].ok) =>
          /\ sm'.state = CHECKED_IN
          /\ sm'.check_in_time # None]_vars

\* The local status that agrees with the backend's attendance.
Agrees(state, att) ==
    CASE att \in {"out", "done"} -> state = LOGGED_OUT
      [] att = "break" -> state \in {ON_BREAK, FORCE_BREAK}
      [] att = "in" -> state = CHECKED_IN

\* C26 (SpecServer): after every event in which a status sync succeeded, the
\* local status agrees with the backend: LOGGED_OUT when it reports checked
\* out or not checked in, a break status when it reports a break, CHECKED_IN
\* when it reports checked in and not on a break.
C26_SyncAgreesWithServer ==
    [][(\E i \in 1..Len(ev'.calls) : ev'.calls[i].name = "stats" /\ ev'.calls[i].ok) =>
          Agrees(sm'.state, srv'.att)]_vars

\* C27 (Spec): in every reachable state a status other than LOGGED_OUT
\* implies that the StateManager holds a session credential; a credential held
\* in status LOGGED_OUT (as after a login) stays until logout, and the status
\* leaves LOGGED_OUT only in an event whose status sync succeeded.
C27_CredentialWhileNotLoggedOut ==
    /\ [](sm.state # LOGGED_OUT => sm.session_token # None)
    /\ [][(sm.state = LOGGED_OUT /\ sm.session_token # None) =>
              /\ sm'.session_token = None => ev'.op = "logout"
              /\ sm'.state # LOGGED_OUT =>
                     \E i \in 1..Len(ev'.calls) :
                         ev'.calls[i].name = "stats" /\ ev'.calls[i].ok]_vars

\* Right after a successful login of a user who has not checked in today.
C27_Witness ==
    /\ ev.op = "login"
    /\ ev.calls[1].ok
    /\ ev.warn = << >>
    /\ sm.state = LOGGED_OUT
    /\ sm.session_token = Token
    /\ view = "dashboard"

\* C28 (SpecLock): under every interleaving of the listener threads'
\* _on_activity with the UI thread's reads and resets, a thread about to write
\* or read the last-activity timestamp holds the lock, and the timestamp never
\* takes a value smaller than the one it had.
C28_TimestampLockedAndMonotone ==
    /\ [](\A t \in Threads : Stmt(t) \in {"store", "load"} => listener.lock = t)
    /\ [][listener'.ts >= listener.ts]_vars

\* The mouse thread is about to store a later time while the keyboard thread,
\* which has an event of its own, waits for the lock and the UI thread has
\* read the clock for get_seconds_since_last_activity.
C28_Witness ==
    /\ listener.pc["mouse"].m = "_on_activity"
    /\ Stmt("mouse") = "store"
    /\ listener.lock = "mouse"
    /\ listener.tmp["mouse"] > listener.ts
    /\ Stmt("keyboard") = "acquire"
    /\ listener.pc[UiThread].m = "get_seconds_since_last_activity"
    /\ Stmt(UiThread) = "acquire"
    /\ listener.ts > 0

PollerTicks == {"check_idle", "shot_tick", "usage_sample", "usage_report"}

\* C29 (SpecPollers): no tick of a poller (idle check, screenshot capture,
\* usage sample, usage flush) changes the StateManager (status, credential,
\* policy, check-in and break fields) or the API client's credential, and none
\* sends a state_changed notification.
C29_PollerTicksLeaveState ==
    [][ev'.op \in PollerTicks =>
          /\ sm' = sm
          /\ api_token' = api_token
          /\ ev'.notes = << >>
          /\ ev'.warn = << >>]_vars

\* A usage sample tick that found the user on a break: it stopped the poller
\* and sent what it had, and the status is still the break.
C29_Witness ==
    /\ ev.op = "usage_sample"
    /\ Len(ev.sent) = 1
    /\ ~usage.is_active
    /\ sm.state = ON_BREAK
    /\ sm.break_start_time # None

\* The string a field yields for display, None when it yields none.
Usable(v) ==
    IF v.kind = "str" /\ v.s # "" THEN v.s
    ELSE IF v.kind = "list" /\ v.first = "msg" THEN FirstElementText("msg")
    ELSE None

\* C30 (SpecError): for an error response with a JSON object body the text
\* raised is the first usable (non-empty) string among the fields detail,
\* message, error, in that order (the first element's msg for a list), and
\* the transport-level text when none of them yields one.
C30_FirstUsableString ==
    (resp.response.body = "object" /\ resp.shown # None) =>
        resp.shown =
            IF Usable(resp.response.detail) # None THEN Usable(resp.response.detail)
            ELSE IF Usable(resp.response.message) # None THEN Usable(resp.response.message)
            ELSE IF Usable(resp.response.error) # None THEN Usable(resp.response.error)
            ELSE TransportText

\* C31 (Spec): after every orchestrator event the dashboard's work timer is
\* frozen (a break-start timestamp is held) only while the status is ON_BREAK
\* or FORCE_BREAK; it is never frozen in CHECKED_IN or LOGGED_OUT.
C31_FrozenOnlyOnBreak ==
    frozen => sm.state \in {ON_BREAK, FORCE_BREAK}

\* The periodic check has just put an idle user on a force break and frozen
\* the timer.
C31_Witness ==
    /\ ev.op = "check_force_break"
    /\ ev.from = CHECKED_IN
    /\ sm.state = FORCE_BREAK
    /\ frozen

ForceCalls(calls) == {k \in 1..Len(calls) : calls[k].name = "force_break_start"}

\* C32 (Spec): a periodic check that, after its status poll, finds the status
\* CHECKED_IN and idle_seconds >= force_break_time makes one
\* force_break_start call: when it succeeds the status is FORCE_BREAK with
\* break_start_time set, when it fails the status stays CHECKED_IN with the
\* condition still true, so that the next check tries again; a check that
\* finds another status or less idle time makes no such call.
C32_ForceBreakTrigger ==
    [][ev'.op = "check_force_break" =>
          LET fc == ForceCalls(ev'.calls)
              due == idle' >= force_break_time(sm')
          IN /\ Cardinality(fc) <= 1
             /\ \A k \in fc :
                    /\ due
                    /\ ev'.calls[k].ok =>
                           sm'.state = FORCE_BREAK /\ sm'.break_start_time # None
                    /\ ~ev'.calls[k].ok => sm'.state = CHECKED_IN /\ sm' = sm
             /\ fc = {} => ~(sm'.state = CHECKED_IN /\ due)]_vars

\* A check whose force_break_start call failed: still CHECKED_IN and idle
\* beyond the force-break time.
C32_Witness ==
    /\ ev.op = "check_force_break"
    /\ ForceCalls(ev.calls) # {}
    /\ \A k \in ForceCalls(ev.calls) : ~ev.calls[k].ok
    /\ sm.state = CHECKED_IN
    /\ idle >= force_break_time(sm)

StatsCalls(calls) == {k \in 1..Len(calls) : calls[k].name = "stats"}

\* C33 (Spec): the periodic check polls the status only when the API client
\* holds a session token and the dashboard is the visible view; a logout
\* leaves no token and the login view, and a token appears again only with a
\* successful login, so that no poll is made in between; a failed poll leaves
\* the state as it was (the force-break trigger then works on that state).
C33_PollOnlyWhenLoggedIn ==
    [][/\ ev'.op = "check_force_break" =>
             LET sc == StatsCalls(ev'.calls) IN
             /\ sc # {} => api_token # None /\ view = "dashboard"
             /\ \A k \in sc : ~ev'.calls[k].ok =>
                    IF ForceCalls(ev'.calls) = {} THEN sm' = sm
                    ELSE sm.state = CHECKED_IN
       /\ ev'.op = "logout" => api_token' = None /\ view' = "login"
       /\ (api_token = None /\ api_token' # None) =>
              /\ ev'.op = "login"
              /\ \E k \in 1..Len(ev'.calls) :
                     ev'.calls[k].name = "login" /\ ev'.calls[k].ok]_vars

\* A periodic check without a token, on the login view, of a user the
\* backend has checked in: no poll was made.
C33_Witness ==
    /\ ev.op = "check_force_break"
    /\ api_token = None
    /\ view = "login"
    /\ srv.att = "in"
    /\ StatsCalls(ev.calls) = {}

\* C34 (SpecPollers): IdleTracker.start on an inactive poller sets the last
\* reported index to -1 and the last activity to now (no idle time); start
\* on an active poller and stop on an inactive one change nothing; stop on an
\* active poller keeps the index and the last activity.
C34_StartStop ==
    [][/\ ev'.op = "idle_start" =>
             IF idleT.is_active
             THEN idleT' = idleT /\ idle' = idle
             ELSE idleT' = [is_active |-> TRUE, last_idx |-> -1] /\ idle' = 0
       /\ ev'.op = "idle_stop" =>
             /\ idle' = idle
             /\ idleT' = [idleT EXCEPT !.is_active = FALSE]]_vars

\* start was called on an active poller that had reported the first threshold
\* after a minute without input.
C34_Witness ==
    /\ ev.op = "idle_start"
    /\ idleT.is_active
    /\ idleT.last_idx = 0
    /\ idle = 60

\* C35 (SpecPollers): an idle report or a screenshot upload is issued only by
\* a step that starts and ends in CHECKED_IN: from the step that leaves
\* CHECKED_IN to the step that enters it again no tick, however it is
\* interleaved with the transitions, issues one.
C35_NoReportOutsideCheckedIn ==
    [][(\E k \in 1..Len(ev'.calls) :
            ev'.calls[k].name \in {"report_idle", "upload_screenshot"})
          => sm.state = CHECKED_IN /\ sm'.state = CHECKED_IN]_vars

\* An idle tick on a break, a minute after the last input with no threshold
\* reported yet: no request was made.
C35_Witness ==
    /\ ev.op = "check_idle"
    /\ sm.state = ON_BREAK
    /\ idleT.is_active
    /\ idleT.last_idx = -1
    /\ idle = 60
    /\ ev.calls = << >>

\* C36 (SpecServer): in every state, that is after every completed event, the
\* API client's bearer token and the state's session token are the same
\* token or are both absent, whatever logins (failed, answered without a
\* token, answered with one token or another) and logouts came before.
C36_TokensAgree == api_token = sm.session_token

\* A login answered with the token of a new session: both hold that token.
C36_Witness ==
    /\ ev.op = "login"
    /\ api_token = OtherToken
    /\ sm.session_token = OtherToken

\* C37 (SpecUsage): while the usage poller is active, for every (app, site)
\* key the seconds sampled since the start are the seconds of the batches
\* sent successfully plus the seconds the accumulator holds; so no sampled
\* second is lost and none is delivered in two successful batches.
C37_SampledIsSentPlusHeld ==
    usage.is_active =>
        \A k \in Keys : ledger.sampled[k] = ledger.delivered[k] + usage.acc[k]

\* Two samples of a key delivered, a third sampled, and a flush that failed.
C37_Witness ==
    /\ usage.is_active
    /\ ev.op = "usage_report"
    /\ Len(ev.sent) = 1
    /\ ~ev.sent[1].ok
    /\ ledger.sampled[<<"Chrome", "site.com">>] = 30
    /\ ledger.delivered[<<"Chrome", "site.com">>] = 20
    /\ usage.acc[<<"Chrome", "site.com">>] = 10

====
